---- MODULE Spec2Model ----
(***************************************************************************)
(* Model of app/lambda_function.py: the S3-triggered pipeline that         *)
(* validates uploaded JPEGs, strips their EXIF data and moves them to the  *)
(* processed bucket, deleting everything else from the ingest bucket.      *)
(*                                                                         *)
(* The blob store (S3), the parameter store (SSM) and the image library    *)
(* (Pillow) are collaborators: every call to them either behaves as        *)
(* documented or fails, and the failure is chosen nondeterministically.    *)
(***************************************************************************)
EXTENDS Integers, Sequences, FiniteSets, TLC

VARIABLES
    param_cache,            \* _param_cache: EmptyCache or the four cached values
    param_cache_timestamp,  \* _param_cache_timestamp: NoTimestamp or a clock value
    now,                    \* time.time()
    config_calls,           \* parameter-store and head_bucket calls of the latest _get_config
    get_config_count,       \* history: number of _get_config calls made
    config_raised,          \* the latest _get_config call left by an exception
    last_fetch,             \* history: the latest fetch that succeeded, and when
    strip_pc,               \* position inside _strip_exif
    temp_file,              \* the file NamedTemporaryFile created next to the original
    temp_path,              \* _strip_exif's temp_path is set
    strip_error,            \* the exception raised inside _strip_exif's try block
    strip_input,            \* history: the file as it was when _strip_exif was called
    strip_calls,            \* history: number of _strip_exif calls made on the file
    strip_original,         \* history: the file as it was before the first _strip_exif call
    callers,                \* concurrent callers of _get_config: position and locals
    s3,                     \* blob store: <<bucket, key>> -> file data or Absent
    record_count,           \* len(event["Records"])
    idx,                    \* number of records the batch loop has finished
    record,                 \* the record _process_record is working on
    pc,                     \* position of lambda_handler / _process_record / _process_file
    config,                 \* the tuple _get_config returned to lambda_handler
    processed_count,        \* lambda_handler's processed_count
    failed_records,         \* lambda_handler's failed_records
    result,                 \* the dict lambda_handler returned
    scratch,                \* the scratch file (local_path): NoFile or its extension and data
    strip_tmp,              \* TRUE while a temp file created by _strip_exif exists
    raised,                 \* TRUE while an exception propagates out of _process_record
    calls,                  \* blob-store calls issued for the current record, in order
    steps,                  \* outcome of classify / strip / verify for the current record
    handled,                \* history: the events the batch loop has finished
    relocated,              \* history: number of events uploaded and then deleted
    failures                \* history: the kinds of calls that failed in this invocation

vars == << param_cache, param_cache_timestamp, now, config_calls, get_config_count,
          config_raised, last_fetch,
          strip_pc, temp_file, temp_path, strip_error, strip_input, strip_calls, strip_original,
          callers, s3, record_count, idx, record, pc,
           config, processed_count, failed_records, result, scratch, strip_tmp,
           raised, calls, steps, handled, relocated, failures >>

(***************************************************************************)
(* Bounds of the model.                                                    *)
(***************************************************************************)
MaxRecords == 2

(***************************************************************************)
(* Program constants.                                                      *)
(***************************************************************************)
PARAM_CACHE_TTL_SECONDS == 300
DefaultMaxFileSize == 10485760

(***************************************************************************)
(* Files.  A file's data is what Pillow reports about it: the format tag   *)
(* Image.open finds ("NONE" when it raises UnidentifiedImageError),        *)
(* whether Image.verify passes, and whether getexif() is non-empty.        *)
(***************************************************************************)
Data == [format : {"JPEG", "PNG", "NONE"}, verifies : BOOLEAN, exif : BOOLEAN]

Absent == [format |-> "ABSENT", verifies |-> FALSE, exif |-> FALSE]

NoFile == [ext |-> "", data |-> Absent, exists |-> FALSE]

JpegClean   == [format |-> "JPEG", verifies |-> TRUE,  exif |-> FALSE]
JpegExif    == [format |-> "JPEG", verifies |-> TRUE,  exif |-> TRUE]
JpegCorrupt == [format |-> "JPEG", verifies |-> FALSE, exif |-> TRUE]
PngImage    == [format |-> "PNG",  verifies |-> TRUE,  exif |-> FALSE]
Junk        == [format |-> "NONE", verifies |-> FALSE, exif |-> FALSE]

(***************************************************************************)
(* Object keys.  os.path.splitext cannot be computed on TLA+ strings, so a *)
(* key is kept as its stem and its extension.                              *)
(***************************************************************************)
Keys == { [stem |-> "no_exif",      ext |-> ".jpg"],
          [stem |-> "with_exif",    ext |-> ".JPEG"],
          [stem |-> "wrong_ext",    ext |-> ".jpg"],
          [stem |-> "wrong_format", ext |-> ".png"],
          [stem |-> "junkfile",     ext |-> ".jpg"],
          [stem |-> "corrupt",      ext |-> ".jpeg"],
          [stem |-> "no_extension", ext |-> ""] }

\* The bytes each uploaded test object holds.
ObjectData(key) ==
    CASE key.stem = "no_exif"      -> JpegClean
      [] key.stem = "with_exif"    -> JpegExif
      [] key.stem = "wrong_ext"    -> PngImage
      [] key.stem = "wrong_format" -> JpegExif
      [] key.stem = "junkfile"     -> Junk
      [] key.stem = "corrupt"      -> JpegCorrupt
      [] key.stem = "no_extension" -> JpegClean

IngestBucket    == "ingest-bkt"
OtherBucket     == "other-bkt"
ProcessedBucket == "processed-bkt"
EventBuckets    == {IngestBucket, OtherBucket}
Buckets         == EventBuckets \cup {ProcessedBucket}

\* The objects uploaded before the batch arrives: every key in the ingest
\* bucket, and two of them in a bucket the config does not name as well.
Objects ==
    ({IngestBucket} \X Keys)
    \cup { <<OtherBucket, k>> : k \in {x \in Keys : x.stem \in {"with_exif", "junkfile"}} }

\* str.lower() on the extensions that occur
Lower(ext) ==
    CASE ext = ".JPEG" -> ".jpeg"
      [] ext = ".JPG"  -> ".jpg"
      [] ext = ".PNG"  -> ".png"
      [] OTHER         -> ext

(***************************************************************************)
(* _is_jpeg: extension check, then format tag, then Image.verify().  The   *)
(* result is "true", "false", or "raised" when Pillow raises an exception  *)
(* that lines 147-152 do not catch.  `fault` is what the environment does: *)
(*   "open_os"      Image.open raises OSError (caught: false)              *)
(*   "open_other"   Image.open raises an exception that is not caught,     *)
(*                  such as DecompressionBombError                         *)
(*   "verify_other" img.verify() raises an exception that is not caught,   *)
(*                  such as ValueError                                     *)
(***************************************************************************)
ClassifyFaults == {"none", "open_os", "open_other", "verify_other"}

\* mutant: the classifier trusts the extension and never opens the file
IsJpegExtensionOnly(file, fault) ==
    IF Lower(file.ext) \in {".jpg", ".jpeg"} THEN "true" ELSE "false"

\* mutant: the extension check is missing, only the content is inspected
IsJpegContentOnly(file, fault) ==
    IF fault = "open_other" THEN "raised"
    ELSE IF fault = "open_os" THEN "false"
    ELSE IF file.data.format # "JPEG" THEN "false"
    ELSE IF fault = "verify_other" THEN "raised"
    ELSE IF ~file.data.verifies THEN "false"
    ELSE "true"

IsJpeg(file, fault) ==
    LET ext == Lower(file.ext) IN
    IF ext \notin {".jpg", ".jpeg"} THEN "false"      \* lines 130-133
    ELSE IF fault = "open_other" THEN "raised"        \* no except clause matches
    ELSE IF fault = "open_os" THEN "false"            \* IOError
    ELSE IF file.data.format = "NONE" THEN "false"    \* UnidentifiedImageError
    ELSE IF file.data.format # "JPEG" THEN "false"    \* img.format != "JPEG"
    ELSE IF fault = "verify_other" THEN "raised"      \* no except clause matches
    ELSE IF ~file.data.verifies THEN "false"          \* IOError / SyntaxError
    ELSE "true"

(***************************************************************************)
(* _strip_exif.  `fault` is the point at which the environment fails:      *)
(*   "open"       Image.open / getexif raises (whatever the class, the     *)
(*                call leaves by an exception and nothing was written)     *)
(*   "mktemp"     NamedTemporaryFile raises OSError                        *)
(*   "save_os"    img.save raises OSError                                  *)
(*   "save_value" img.save raises ValueError                               *)
(*   "save_other" img.save raises an exception that is neither             *)
(*   "replace"    os.replace raises OSError                                *)
(*   "keeps_exif" img.save succeeds but the encoder leaves metadata behind *)
(* The result is whether the call raised, the file at file_path after the  *)
(* call, and whether the temp file it created still exists.                *)
(***************************************************************************)
StripFaults == {"none", "open", "mktemp", "save_os", "save_value", "save_other",
                "replace", "keeps_exif"}

StripExif(file, fault) ==
    IF fault = "open" \/ file.data.format = "NONE"
    THEN [raised |-> TRUE, file |-> file, tmp |-> FALSE]
    ELSE IF ~file.data.exif
    THEN [raised |-> FALSE, file |-> file, tmp |-> FALSE]      \* nothing to strip
    ELSE IF fault = "mktemp"
    THEN [raised |-> TRUE, file |-> file, tmp |-> FALSE]
    ELSE IF fault \in {"save_os", "save_value", "replace"}
    THEN [raised |-> TRUE, file |-> file, tmp |-> FALSE]      \* temp unlinked in except
    ELSE IF fault = "save_other"
    THEN [raised |-> TRUE, file |-> file, tmp |-> TRUE]       \* no except clause matches
    ELSE [raised |-> FALSE,
          file   |-> [file EXCEPT !.data = [format   |-> "JPEG",
                                            verifies |-> TRUE,
                                            exif     |-> (fault = "keeps_exif")]],
          tmp    |-> FALSE]                                    \* os.replace(temp, file)

\* no temp file; `complete` tells a fully written and closed temp file from
\* an empty or partly written one
NoTemp == [exists |-> FALSE, data |-> Absent, complete |-> FALSE]

\* line 188: what img.save(..., format="JPEG", exif=b"") writes
Stripped(keepsExif) == [format |-> "JPEG", verifies |-> TRUE, exif |-> keepsExif]

(***************************************************************************)
(* _exif_removed: "true", "false", or "raised" when Image.open fails.      *)
(***************************************************************************)
VerifyFaults == {"none", "open"}

\* mutant: the check reports success for any file it can open
ExifRemovedAnyOpened(file, fault) ==
    IF fault = "open" \/ file.data.format = "NONE" THEN "raised" ELSE "true"

ExifRemoved(file, fault) ==
    IF fault = "open" \/ file.data.format = "NONE" THEN "raised"
    ELSE IF file.data.exif THEN "false"
    ELSE "true"

(***************************************************************************)
(* Parameter store.  A response is either a ClientError or the parameters  *)
(* found, as a set of names and the values of the four names.              *)
(***************************************************************************)
ParamNames == {"ingest-bucket", "processed-bucket", "processed-kms-key-arn",
               "max-file-size"}

NoneStr == "None"

Falsy(s) == s = NoneStr \/ s = ""

\* str.strip() on the bucket names that occur
StrStrip(s) == IF s = " " THEN "" ELSE s

\* int(): the value, or ValueError
ParseInt(s) ==
    CASE s = "1"     -> [ok |-> TRUE, value |-> 1]
      [] s = "0"     -> [ok |-> TRUE, value |-> 0]
      [] s = "-5"    -> [ok |-> TRUE, value |-> 0 - 5]
      [] OTHER       -> [ok |-> FALSE, value |-> 0]

SsmResponse(error, names, ingest, processed, kms, maxsize) ==
    [error |-> error, names |-> names, ingest_bucket |-> ingest,
     processed_bucket |-> processed, processed_kms_key_arn |-> kms,
     max_file_size |-> maxsize]

\* `error` is "none", "ClientError", or "BotoCoreError" for a failure botocore
\* reports with an exception that is no ClientError (no endpoint, no credentials)
SsmResponses ==
    { SsmResponse("none", ParamNames, IngestBucket, ProcessedBucket, "kms-arn", "1"),
      SsmResponse("none", ParamNames, IngestBucket, ProcessedBucket, "kms-arn", "abc"),
      SsmResponse("none", ParamNames, " ", ProcessedBucket, "kms-arn", "1"),
      SsmResponse("none", ParamNames \ {"processed-kms-key-arn"},
                  IngestBucket, ProcessedBucket, NoneStr, "1"),
      SsmResponse("none", ParamNames, IngestBucket, ProcessedBucket, "", "1"),
      SsmResponse("ClientError", {}, NoneStr, NoneStr, NoneStr, NoneStr),
      SsmResponse("BotoCoreError", {}, NoneStr, NoneStr, NoneStr, NoneStr) }

NoResponse == SsmResponse("none", {}, NoneStr, NoneStr, NoneStr, NoneStr)

\* how an external call of _get_config ends: it returns, raises ClientError,
\* or raises an exception that is no ClientError
CallOutcomes == {"none", "ClientError", "BotoCoreError"}

\* one external call of _get_config: ssm get_parameters or s3 head_bucket
ConfigCall(op, bucket, error, resp) ==
    [op |-> op, bucket |-> bucket, error |-> error, resp |-> resp]

\* params.get(name): the value when the name was returned, else None
ParamGet(resp, name, value) == IF name \in resp.names THEN value ELSE NoneStr

(***************************************************************************)
(* The config tuple and the module-level cache.                            *)
(***************************************************************************)
Unavailable ==
    [none |-> TRUE, ingest_bucket |-> NoneStr, processed_bucket |-> NoneStr,
     file_max_size |-> 0, processed_kms_key_arn |-> NoneStr]

CacheKeys == {"ingest_bucket", "processed_bucket", "file_max_size",
              "processed_kms_key_arn"}

EmptyCache ==
    [keys |-> {}, ingest_bucket |-> NoneStr, processed_bucket |-> NoneStr,
     file_max_size |-> 0, processed_kms_key_arn |-> NoneStr]

NoTimestamp == [set |-> FALSE, at |-> 0]

\* mutant: the check of the key reference is missing
KmsMissingNever(kms) == FALSE

\* lines 348-350: `if not processed_kms_key_arn`
KmsMissing(kms) == Falsy(kms)

\* lines 318-350: parse and validate a response holding four parameters
ValidateParams(resp, headIngestOk, headProcessedOk) ==
    LET ingest    == ParamGet(resp, "ingest-bucket", resp.ingest_bucket)
        processed == ParamGet(resp, "processed-bucket", resp.processed_bucket)
        kms       == ParamGet(resp, "processed-kms-key-arn", resp.processed_kms_key_arn)
        parsed    == ParseInt(IF "max-file-size" \in resp.names
                              THEN resp.max_file_size ELSE "10485760")
        maxsize   == IF "max-file-size" \notin resp.names THEN DefaultMaxFileSize
                     ELSE IF parsed.ok THEN parsed.value ELSE DefaultMaxFileSize
    IN  IF Falsy(ingest) \/ StrStrip(ingest) = "" THEN Unavailable
        ELSE IF ~headIngestOk THEN Unavailable
        ELSE IF Falsy(processed) \/ StrStrip(processed) = "" THEN Unavailable
        ELSE IF ~headProcessedOk THEN Unavailable
        ELSE IF KmsMissing(kms) THEN Unavailable
        ELSE [none |-> FALSE, ingest_bucket |-> ingest, processed_bucket |-> processed,
              file_max_size |-> maxsize, processed_kms_key_arn |-> kms]

\* lines 335-346: the head_bucket calls the validation loop issues; the loop
\* ends at the first bucket that is blank or whose head_bucket raises
HeadCalls(resp, headIngest, headProcessed) ==
    LET ingest    == ParamGet(resp, "ingest-bucket", resp.ingest_bucket)
        processed == ParamGet(resp, "processed-bucket", resp.processed_bucket)
    IN  IF Falsy(ingest) \/ StrStrip(ingest) = "" THEN << >>
        ELSE IF headIngest # "none" \/ Falsy(processed) \/ StrStrip(processed) = ""
        THEN << ConfigCall("head_bucket", ingest, headIngest, NoResponse) >>
        ELSE << ConfigCall("head_bucket", ingest, headIngest, NoResponse),
                ConfigCall("head_bucket", processed, headProcessed, NoResponse) >>

\* line 285: the cache holds values and a timestamp
CacheHit(cache, timestamp) == cache.keys # {} /\ timestamp.set

\* mutant: an entry exactly as old as the TTL still counts as fresh
CacheFreshInclusive(cache, timestamp, clock) ==
    CacheHit(cache, timestamp) /\ clock - timestamp.at <= PARAM_CACHE_TTL_SECONDS

\* lines 286-287: the cached values are younger than the TTL
CacheFresh(cache, timestamp, clock) ==
    CacheHit(cache, timestamp) /\ clock - timestamp.at < PARAM_CACHE_TTL_SECONDS

\* lines 314-316: exactly four parameters came back
CountOk(resp) == Cardinality(resp.names) = 4

\* lines 353-356: the four values stored in the cache
FillCache(cfg) ==
    [keys |-> CacheKeys,
     ingest_bucket |-> cfg.ingest_bucket,
     processed_bucket |-> cfg.processed_bucket,
     file_max_size |-> cfg.file_max_size,
     processed_kms_key_arn |-> cfg.processed_kms_key_arn]

\* lines 289-294: the tuple built from the cache
FromCache(cache) ==
    [none |-> FALSE,
     ingest_bucket |-> cache.ingest_bucket,
     processed_bucket |-> cache.processed_bucket,
     file_max_size |-> cache.file_max_size,
     processed_kms_key_arn |-> cache.processed_kms_key_arn]

\* lines 295-298: an expired entry is cleared before the fetch
\* mutant: the expired entries are cleared but the timestamp is left in place
ExpireCacheKeepsTimestamp(cache, timestamp, clock) ==
    IF CacheHit(cache, timestamp) /\ ~CacheFresh(cache, timestamp, clock)
    THEN [cache |-> EmptyCache, timestamp |-> timestamp]
    ELSE [cache |-> cache, timestamp |-> timestamp]

ExpireCache(cache, timestamp, clock) ==
    IF CacheHit(cache, timestamp) /\ ~CacheFresh(cache, timestamp, clock)
    THEN [cache |-> EmptyCache, timestamp |-> NoTimestamp]
    ELSE [cache |-> cache, timestamp |-> timestamp]

\* _get_config: the tuple returned, the cache it leaves behind, the external
\* calls it issued, and whether it left by an exception it does not catch
\* (line 362 catches ClientError only)
GetConfig(cache, timestamp, clock, resp, headIngest, headProcessed) ==
    LET expired == ExpireCache(cache, timestamp, clock)
        ssmCall == ConfigCall("get_parameters", "", resp.error, resp)
        heads   == IF resp.error # "none" \/ ~CountOk(resp) THEN << >>
                   ELSE HeadCalls(resp, headIngest, headProcessed)
        issued  == << ssmCall >> \o heads
        fetched == IF resp.error # "none" THEN Unavailable
                   ELSE IF ~CountOk(resp) THEN Unavailable
                   ELSE ValidateParams(resp, headIngest = "none", headProcessed = "none")
    IN  IF CacheFresh(cache, timestamp, clock)
        THEN [config |-> FromCache(cache), cache |-> cache, timestamp |-> timestamp,
              calls |-> << >>, raised |-> FALSE]
        ELSE IF issued[Len(issued)].error = "BotoCoreError"
        THEN [config |-> Unavailable, cache |-> expired.cache,
              timestamp |-> expired.timestamp, calls |-> issued, raised |-> TRUE]
        ELSE IF fetched.none
        THEN [config |-> Unavailable, cache |-> expired.cache,
              timestamp |-> expired.timestamp, calls |-> issued, raised |-> FALSE]
        ELSE [config |-> fetched, cache |-> FillCache(fetched),
              timestamp |-> [set |-> TRUE, at |-> clock],
              calls |-> issued, raised |-> FALSE]

\* threads that may be inside _get_config at the same time
Callers == {1, 2}

\* a caller outside _get_config: `resp` is the response get_parameters gave
\* it, `fetched` the tuple it validated, `clock` the value time.time()
\* returned to it, `ret` how its latest call ended and `value` what that call
\* returned
NoCaller == [pc |-> "idle", resp |-> NoResponse, fetched |-> Unavailable,
             clock |-> 0, ret |-> "none", value |-> Unavailable]

NoFetch == [set |-> FALSE, at |-> 0, config |-> Unavailable]

\* history: a call that fetched and validated four parameters is remembered
Fetched(last, got, clock) ==
    IF got.calls # << >> /\ ~got.raised /\ ~got.config.none
    THEN [set |-> TRUE, at |-> clock, config |-> got.config]
    ELSE last

(***************************************************************************)
(* Events.  A record names a bucket and a key and may carry a size.        *)
(***************************************************************************)
NoRecord == [bucket |-> "", key |-> [stem |-> "", ext |-> ""],
             has_size |-> FALSE, size |-> 0]

\* the declared sizes worth telling apart for a given limit
Sizes(limit) == {0, limit, limit + 1}

Records(limit) ==
    { [bucket |-> o[1], key |-> o[2], has_size |-> TRUE, size |-> n] :
        o \in Objects, n \in Sizes(limit) }
    \cup { [bucket |-> o[1], key |-> o[2], has_size |-> FALSE, size |-> 0] :
             o \in Objects }

\* mutant: the size check rejects a size equal to the limit
SizeRejectedInclusive(rec, file_max_size) ==
    IF ~rec.has_size THEN TRUE
    ELSE rec.size >= file_max_size

\* lines 382-390: the size check of _process_record
SizeRejected(rec, file_max_size) ==
    IF ~rec.has_size THEN TRUE
    ELSE rec.size > file_max_size

NoSteps == [classify |-> "no", strip |-> "no", verify |-> "no"]

NoResult == [status |-> "none", message |-> "", counted |-> FALSE,
             processed |-> 0, total |-> 0, failed |-> 0]

(***************************************************************************)
(* Blob-store calls.  Each returns or raises ClientError.                  *)
(***************************************************************************)
Call(op, bucket, key, kms, ok) ==
    [op |-> op, bucket |-> bucket, key |-> key, kms |-> kms, ok |-> ok]

\* s3_client.delete_object
DeleteObject(store, bucket, key, ok) ==
    IF ok THEN [store EXCEPT ![<<bucket, key>>] = Absent] ELSE store

\* s3_client.upload_file
UploadObject(store, bucket, key, data, ok) ==
    IF ok THEN [store EXCEPT ![<<bucket, key>>] = data] ELSE store

\* lines 84-87: the SSEKMSKeyId the upload carries in ExtraArgs, or None
\* when kms_key_arn is falsy and ExtraArgs stays empty
UploadExtraArgs(kms) == IF Falsy(kms) THEN NoneStr ELSE kms

\* s3_client.download_file succeeds only for an object that exists
DownloadOk(store, bucket, key, ok) == ok /\ store[<<bucket, key>>] # Absent

\* mutant: the empty batch is not told apart from a batch that failed
StatusNoEmptyGuard(processed, total) ==
    IF processed = 0 THEN "error"
    ELSE IF processed = total THEN "success"
    ELSE "partial_failure"

\* lines 447-454: the status of the batch
Status(processed, total) ==
    IF processed = 0 /\ total > 0 THEN "error"
    ELSE IF processed = total THEN "success"
    ELSE "partial_failure"

Init ==
    /\ param_cache = EmptyCache
    /\ param_cache_timestamp = NoTimestamp
    /\ now = 0
    /\ config_calls = << >>
    /\ get_config_count = 0
    /\ config_raised = FALSE
    /\ last_fetch = NoFetch
    /\ strip_pc = "idle"
    /\ temp_file = NoTemp
    /\ temp_path = FALSE
    /\ strip_error = "none"
    /\ strip_input = NoFile
    /\ strip_calls = 0
    /\ strip_original = NoFile
    /\ callers = [c \in Callers |-> NoCaller]
    /\ s3 = [o \in Buckets \X Keys |->
                IF o \in Objects THEN ObjectData(o[2]) ELSE Absent]
    /\ record_count \in 0..MaxRecords
    /\ idx = 0
    /\ record = NoRecord
    /\ pc = "start"
    /\ config = Unavailable
    /\ processed_count = 0
    /\ failed_records = << >>
    /\ result = NoResult
    /\ scratch = NoFile
    /\ strip_tmp = FALSE
    /\ raised = FALSE
    /\ calls = << >>
    /\ steps = NoSteps
    /\ handled = {}
    /\ relocated = 0
    /\ failures = {}

(***************************************************************************)
(* lambda_handler, lines 424-434: fetch the config, give up without it.    *)
(***************************************************************************)
LambdaHandler ==
    /\ pc = "start"
    /\ \E resp \in SsmResponses, headIngest \in CallOutcomes, headProcessed \in CallOutcomes :
         LET got == GetConfig(param_cache, param_cache_timestamp, now, resp,
                              headIngest, headProcessed)
         IN  /\ config' = got.config
             /\ param_cache' = got.cache
             /\ param_cache_timestamp' = got.timestamp
             /\ config_calls' = got.calls
             /\ get_config_count' = get_config_count + 1
             /\ config_raised' = got.raised
             /\ last_fetch' = Fetched(last_fetch, got, now)
             /\ IF got.raised
                THEN /\ result' = result
                     /\ pc' = "crashed"     \* the exception leaves lambda_handler
                ELSE IF Falsy(got.config.ingest_bucket)
                THEN /\ result' = [NoResult EXCEPT !.status = "error",
                                       !.message = "Configuration retrieval failed"]
                     /\ pc' = "done"
                ELSE /\ result' = result
                     /\ pc' = IF record_count = 0 THEN "finish" ELSE "record"
    /\ UNCHANGED << strip_pc, temp_file, temp_path, strip_error, strip_input, strip_calls, strip_original,
                    callers >>
    /\ UNCHANGED << now, s3, record_count, idx, record, processed_count, failed_records,
                    scratch, strip_tmp, raised, calls, steps, handled, relocated,
                    failures >>

\* mutant: the handler's configured source bucket is used for the object calls
SourceBucketConfigured(rec, cfg) == cfg.ingest_bucket

\* line 377: bucket = record["s3"]["bucket"]["name"], the bucket handed to
\* _download_file (line 400) and, through _process_file, to _delete_file
SourceBucket(rec, cfg) == rec.bucket

(***************************************************************************)
(* _process_record, lines 377-397: the size check and the scratch file.    *)
(***************************************************************************)
ProcessRecord ==
    /\ pc = "record"
    /\ \E rec \in Records(config.file_max_size), ok \in BOOLEAN :
         /\ record' = rec
         /\ IF SizeRejected(rec, config.file_max_size)
            THEN /\ s3' = DeleteObject(s3, SourceBucket(rec, config), rec.key, ok)
                 /\ calls' = << Call("delete", SourceBucket(rec, config), rec.key,
                                    NoneStr, ok) >>
                 /\ raised' = ~ok
                 /\ failures' = IF ok THEN failures ELSE failures \cup {"delete"}
                 /\ scratch' = NoFile
                 /\ pc' = "return"
            ELSE IF ok
            THEN /\ scratch' = [ext |-> rec.key.ext, data |-> Junk, exists |-> TRUE]
                 /\ calls' = << >>
                 /\ raised' = FALSE
                 /\ pc' = "download"
                 /\ UNCHANGED << s3, failures >>
            ELSE \* NamedTemporaryFile (line 396) raises OSError before the try
                 /\ scratch' = NoFile
                 /\ calls' = << >>
                 /\ raised' = TRUE
                 /\ pc' = "return"
                 /\ UNCHANGED << s3, failures >>
    /\ UNCHANGED << config_calls, get_config_count, config_raised, last_fetch >>
    /\ UNCHANGED << strip_pc, temp_file, temp_path, strip_error, strip_input, strip_calls, strip_original,
                    callers >>
    /\ UNCHANGED << param_cache, param_cache_timestamp, now, record_count, idx, config,
                    processed_count, failed_records, result, strip_tmp, steps, handled,
                    relocated >>

\* mutant: the download error is swallowed and the file is processed anyway
AfterDownloadContinues(done) == "classify"

\* lines 399-402: a failed download leaves the try block for the finally block
AfterDownload(done) == IF done THEN "classify" ELSE "cleanup"

(***************************************************************************)
(* _download_file, lines 400 and 52-69.                                    *)
(***************************************************************************)
DownloadFile ==
    /\ pc = "download"
    /\ \E ok \in BOOLEAN :
         LET bucket == SourceBucket(record, config)
             done   == DownloadOk(s3, bucket, record.key, ok)
         IN  /\ calls' = Append(calls, Call("download", bucket, record.key,
                                            NoneStr, done))
             /\ IF done
                THEN /\ scratch' = [scratch EXCEPT !.data = s3[<<bucket, record.key>>]]
                     /\ UNCHANGED << raised, failures >>
                ELSE /\ raised' = TRUE
                     /\ failures' = failures \cup {"download"}
                     /\ UNCHANGED scratch
             /\ pc' = AfterDownload(done)
    /\ UNCHANGED << config_calls, get_config_count, config_raised, last_fetch >>
    /\ UNCHANGED << strip_pc, temp_file, temp_path, strip_error, strip_input, strip_calls, strip_original,
                    callers >>
    /\ UNCHANGED << param_cache, param_cache_timestamp, now, s3, record_count, idx,
                    record, config, processed_count, failed_records, result, strip_tmp,
                    steps, handled, relocated >>

\* _delete_file(ingest_bucket, key) inside _process_file; a ClientError leaves
\* _process_file at once, otherwise control goes on to `next`
Discard(ok, next) ==
    /\ s3' = DeleteObject(s3, SourceBucket(record, config), record.key, ok)
    /\ calls' = Append(calls, Call("delete", SourceBucket(record, config), record.key,
                                   NoneStr, ok))
    /\ raised' = ~ok
    /\ failures' = IF ok THEN failures ELSE failures \cup {"delete"}
    /\ pc' = IF ok THEN next ELSE "cleanup"

\* lines 261-265: the ClientError of the delete at line 261 is caught by the
\* except clause of line 263, which issues the delete a second time; only a
\* ClientError of the second delete leaves _process_file
DiscardAgain(ok, next) ==
    LET bucket == SourceBucket(record, config)
    IN  /\ s3' = DeleteObject(s3, bucket, record.key, ok)
        /\ calls' = calls \o << Call("delete", bucket, record.key, NoneStr, FALSE),
                                 Call("delete", bucket, record.key, NoneStr, ok) >>
        /\ raised' = ~ok
        /\ failures' = failures \cup {"delete"}
        /\ pc' = IF ok THEN next ELSE "cleanup"

\* mutant: the return after the discard is missing and control falls through
ClassifyRejectFallsThrough == "strip"

\* line 249: return after discarding a file that is not a JPEG
AfterClassifyReject == "cleanup"

\* mutant: the return after the discard is missing and control falls through
StripFailureFallsThrough == "verify"

\* line 256: return after discarding a file whose strip raised
AfterStripFailure == "cleanup"

\* mutant: the return after the discard is missing and control falls through
VerifyFailureFallsThrough == "upload"

\* lines 262 and 266: return after discarding a file that failed verification
AfterVerifyFailure == "cleanup"

\* mutant: a failed upload is tried again
AfterUploadRetries(ok) == IF ok THEN "delete" ELSE "upload"

\* mutant: the upload error is swallowed and the delete runs anyway
AfterUploadAlwaysDelete(ok) == "delete"

\* lines 268-269: the delete runs only when _upload_file returned
AfterUpload(ok) == IF ok THEN "delete" ELSE "cleanup"

\* line 269 is the last statement of _process_file
AfterDeleteSource == "cleanup"

(***************************************************************************)
(* _process_file, lines 246-249: classify.                                 *)
(***************************************************************************)
Classify ==
    /\ pc = "classify"
    /\ \E fault \in ClassifyFaults :
         LET c == IsJpeg(scratch, fault)
         IN  /\ steps' = [steps EXCEPT !.classify = c]
             /\ IF c = "true"
                THEN /\ pc' = "strip"
                     /\ UNCHANGED << s3, calls, raised, failures >>
                ELSE IF c = "raised"
                THEN \* line 246 is outside any try: the exception leaves
                     \* _process_file and no delete is issued
                     /\ raised' = TRUE
                     /\ pc' = "cleanup"
                     /\ UNCHANGED << s3, calls, failures >>
                ELSE \E ok \in BOOLEAN : Discard(ok, AfterClassifyReject)
    /\ UNCHANGED << config_calls, get_config_count, config_raised, last_fetch >>
    /\ UNCHANGED << strip_pc, temp_file, temp_path, strip_error, strip_input, strip_calls, strip_original,
                    callers >>
    /\ UNCHANGED << param_cache, param_cache_timestamp, now, record_count, idx, record,
                    config, processed_count, failed_records, result, scratch, strip_tmp,
                    handled, relocated >>

(***************************************************************************)
(* _process_file, lines 251-256: strip.                                    *)
(***************************************************************************)
Strip ==
    /\ pc = "strip"
    /\ \E fault \in StripFaults :
         LET r == StripExif(scratch, fault)
         IN  /\ scratch' = r.file
             /\ strip_tmp' = (strip_tmp \/ r.tmp)
             /\ IF r.raised
                THEN /\ steps' = [steps EXCEPT !.strip = "raised"]
                     /\ \E ok \in BOOLEAN : Discard(ok, AfterStripFailure)
                ELSE /\ steps' = [steps EXCEPT !.strip = "ok"]
                     /\ pc' = "verify"
                     /\ UNCHANGED << s3, calls, raised, failures >>
    /\ UNCHANGED << config_calls, get_config_count, config_raised, last_fetch >>
    /\ UNCHANGED << strip_pc, temp_file, temp_path, strip_error, strip_input, strip_calls, strip_original,
                    callers >>
    /\ UNCHANGED << param_cache, param_cache_timestamp, now, record_count, idx, record,
                    config, processed_count, failed_records, result, handled, relocated >>

(***************************************************************************)
(* _process_file, lines 258-266: verify.                                   *)
(***************************************************************************)
Verify ==
    /\ pc = "verify"
    /\ \E fault \in VerifyFaults :
         LET v == ExifRemoved(scratch, fault)
         IN  /\ steps' = [steps EXCEPT !.verify = v]
             /\ IF v = "true"
                THEN /\ pc' = "upload"
                     /\ UNCHANGED << s3, calls, raised, failures >>
                ELSE IF v = "raised"
                THEN \E ok \in BOOLEAN : Discard(ok, AfterVerifyFailure)
                ELSE \E ok, again \in BOOLEAN :
                        IF ok THEN Discard(ok, AfterVerifyFailure)
                        ELSE DiscardAgain(again, AfterVerifyFailure)
    /\ UNCHANGED << config_calls, get_config_count, config_raised, last_fetch >>
    /\ UNCHANGED << strip_pc, temp_file, temp_path, strip_error, strip_input, strip_calls, strip_original,
                    callers >>
    /\ UNCHANGED << param_cache, param_cache_timestamp, now, record_count, idx, record,
                    config, processed_count, failed_records, result, scratch, strip_tmp,
                    handled, relocated >>

(***************************************************************************)
(* _process_file, line 268, and _upload_file, lines 72-93.                 *)
(***************************************************************************)
UploadFile ==
    /\ pc = "upload"
    /\ \E ok \in BOOLEAN :
         /\ s3' = UploadObject(s3, config.processed_bucket, record.key, scratch.data, ok)
         /\ calls' = Append(calls, Call("upload", config.processed_bucket, record.key,
                                        UploadExtraArgs(config.processed_kms_key_arn),
                                        ok))
         /\ pc' = AfterUpload(ok)
         /\ IF ok
            THEN UNCHANGED << raised, failures >>
            ELSE /\ raised' = TRUE
                 /\ failures' = failures \cup {"upload"}
    /\ UNCHANGED << config_calls, get_config_count, config_raised, last_fetch >>
    /\ UNCHANGED << strip_pc, temp_file, temp_path, strip_error, strip_input, strip_calls, strip_original,
                    callers >>
    /\ UNCHANGED << param_cache, param_cache_timestamp, now, record_count, idx, record,
                    config, processed_count, failed_records, result, scratch, strip_tmp,
                    steps, handled, relocated >>

(***************************************************************************)
(* _process_file, line 269: delete the source after the upload.            *)
(***************************************************************************)
DeleteSource ==
    /\ pc = "delete"
    /\ \E ok \in BOOLEAN :
         /\ Discard(ok, AfterDeleteSource)
         /\ relocated' = IF ok THEN relocated + 1 ELSE relocated
    /\ UNCHANGED << config_calls, get_config_count, config_raised, last_fetch >>
    /\ UNCHANGED << strip_pc, temp_file, temp_path, strip_error, strip_input, strip_calls, strip_original,
                    callers >>
    /\ UNCHANGED << param_cache, param_cache_timestamp, now, record_count, idx, record,
                    config, processed_count, failed_records, result, scratch, strip_tmp,
                    steps, handled >>

\* mutant: the finally block is missing
UnlinkNever(file) == file

\* lines 403-404: unlink the scratch file when it exists
Unlink(file) == IF file.exists THEN NoFile ELSE file

(***************************************************************************)
(* _process_record, lines 402-405: the finally block.                      *)
(***************************************************************************)
Cleanup ==
    /\ pc = "cleanup"
    /\ scratch' = Unlink(scratch)
    /\ pc' = "return"
    /\ UNCHANGED << config_calls, get_config_count, config_raised, last_fetch >>
    /\ UNCHANGED << strip_pc, temp_file, temp_path, strip_error, strip_input, strip_calls, strip_original,
                    callers >>
    /\ UNCHANGED << param_cache, param_cache_timestamp, now, s3, record_count, idx,
                    record, config, processed_count, failed_records, result, strip_tmp,
                    raised, calls, steps, handled, relocated, failures >>

\* what the history keeps of a finished event
Summary(rec, file_max_size, exc, outcome) ==
    [bucket |-> rec.bucket, key |-> rec.key,
     rejected |-> SizeRejected(rec, file_max_size), raised |-> exc,
     verified |-> (outcome.verify = "true")]

\* mutant: the increment sits outside the try block
CountProcessedAlways(count, exc) == count + 1

\* line 441: processed_count += 1 is skipped when _process_record raised
CountProcessed(count, exc) == IF exc THEN count ELSE count + 1

\* mutant: the key is appended outside the except clause
RecordFailureAlways(failed, key, exc) == Append(failed, key)

\* lines 443-445: failed_records.append(record_key) when it raised
RecordFailure(failed, key, exc) == IF exc THEN Append(failed, key) ELSE failed

\* mutant: the except clause re-raises, so a failed record ends the loop
AfterRecordStopsOnFailure(done, total, exc) ==
    IF exc \/ done = total THEN "finish" ELSE "record"

\* lines 436-445: the for loop goes on to the next record whether or not
\* _process_record raised
AfterRecord(done, total, exc) == IF done = total THEN "finish" ELSE "record"

(***************************************************************************)
(* lambda_handler, lines 436-445: count the record and go on.              *)
(***************************************************************************)
RecordDone ==
    /\ pc = "return"
    /\ processed_count' = CountProcessed(processed_count, raised)
    /\ failed_records' = RecordFailure(failed_records, record.key, raised)
    /\ raised' = FALSE
    /\ idx' = idx + 1
    /\ handled' = handled \cup {Summary(record, config.file_max_size, raised, steps)}
    /\ record' = NoRecord
    /\ calls' = << >>
    /\ steps' = NoSteps
    /\ pc' = AfterRecord(idx + 1, record_count, raised)
    /\ UNCHANGED << config_calls, get_config_count, config_raised, last_fetch >>
    /\ UNCHANGED << strip_pc, temp_file, temp_path, strip_error, strip_input, strip_calls, strip_original,
                    callers >>
    /\ UNCHANGED << param_cache, param_cache_timestamp, now, s3, record_count, config,
                    result, scratch, strip_tmp, relocated, failures >>

(***************************************************************************)
(* lambda_handler, lines 447-464: the result.                              *)
(***************************************************************************)
Finish ==
    /\ pc = "finish"
    /\ result' = [status |-> Status(processed_count, record_count), message |-> "",
                  counted |-> TRUE, processed |-> processed_count,
                  total |-> record_count, failed |-> Len(failed_records)]
    /\ pc' = "done"
    /\ UNCHANGED << config_calls, get_config_count, config_raised, last_fetch >>
    /\ UNCHANGED << strip_pc, temp_file, temp_path, strip_error, strip_input, strip_calls, strip_original,
                    callers >>
    /\ UNCHANGED << param_cache, param_cache_timestamp, now, s3, record_count, idx,
                    record, config, processed_count, failed_records, scratch, strip_tmp,
                    raised, calls, steps, handled, relocated, failures >>

Next ==
    \/ LambdaHandler
    \/ ProcessRecord
    \/ DownloadFile
    \/ Classify
    \/ Strip
    \/ Verify
    \/ UploadFile
    \/ DeleteSource
    \/ Cleanup
    \/ RecordDone
    \/ Finish

Spec == Init /\ [][Next]_vars

(***************************************************************************)
(* _strip_exif step by step, lines 170-206, on a file of any content.      *)
(***************************************************************************)
Extensions == {k.ext : k \in Keys}

StripInputs ==
    { [ext |-> e, data |-> d, exists |-> TRUE] :
        e \in Extensions, d \in {JpegClean, JpegExif, JpegCorrupt, PngImage, Junk} }

InitStrip ==
    /\ param_cache = EmptyCache
    /\ param_cache_timestamp = NoTimestamp
    /\ now = 0
    /\ config_calls = << >>
    /\ get_config_count = 0
    /\ config_raised = FALSE
    /\ last_fetch = NoFetch
    /\ scratch \in StripInputs
    /\ strip_input = scratch
    /\ strip_calls = 1
    /\ strip_original = scratch
    /\ callers = [c \in Callers |-> NoCaller]
    /\ strip_pc = "open"
    /\ temp_file = NoTemp
    /\ temp_path = FALSE
    /\ strip_error = "none"
    /\ s3 = [o \in Buckets \X Keys |->
                IF o \in Objects THEN ObjectData(o[2]) ELSE Absent]
    /\ record_count = 0
    /\ idx = 0
    /\ record = NoRecord
    /\ pc = "strip"
    /\ config = Unavailable
    /\ processed_count = 0
    /\ failed_records = << >>
    /\ result = NoResult
    /\ strip_tmp = FALSE
    /\ raised = FALSE
    /\ calls = << >>
    /\ steps = NoSteps
    /\ handled = {}
    /\ relocated = 0
    /\ failures = {}

\* what _strip_exif leaves alone at every step
StripFrame ==
    UNCHANGED << param_cache, param_cache_timestamp, now, config_calls, get_config_count,
                 config_raised, last_fetch, strip_input, strip_calls, strip_original, callers, s3,
                 record_count, idx, record,
                 pc, config, processed_count, failed_records, result, strip_tmp, raised,
                 calls, steps, handled, relocated, failures >>

\* mutant: the early return for a file without EXIF data is missing
AfterOpenAlwaysStrips(has_exif) == "mktemp"

\* lines 176-178: a file without EXIF data is left as it is
AfterOpen(has_exif) == IF has_exif THEN "mktemp" ELSE "done"

\* what Image.open / getexif may raise: OSError, ValueError, or an exception
\* of another class such as DecompressionBombError
OpenOutcomes == {"none", "OSError", "ValueError", "other"}

\* lines 173-178: Image.open and getexif; no EXIF data means return.  A file
\* Pillow does not recognise raises UnidentifiedImageError, an OSError.
StripOpen ==
    /\ strip_pc = "open"
    /\ \E outcome \in OpenOutcomes :
         IF outcome # "none"
         THEN strip_pc' = "except" /\ strip_error' = outcome
         ELSE IF scratch.data.format = "NONE"
         THEN strip_pc' = "except" /\ strip_error' = "OSError"
         ELSE /\ strip_pc' = AfterOpen(scratch.data.exif)
              /\ strip_error' = strip_error
    /\ UNCHANGED << scratch, temp_file, temp_path >>
    /\ StripFrame

\* lines 181-184: NamedTemporaryFile(delete=False) creates and closes an
\* empty file in the directory of the original
StripMakeTemp ==
    /\ strip_pc = "mktemp"
    /\ \E ok \in BOOLEAN :
         IF ok
         THEN /\ temp_file' = [exists |-> TRUE, data |-> Junk, complete |-> FALSE]
              /\ temp_path' = TRUE
              /\ strip_pc' = "save"
              /\ strip_error' = strip_error
         ELSE /\ strip_pc' = "except"
              /\ strip_error' = "OSError"
              /\ UNCHANGED << temp_file, temp_path >>
    /\ UNCHANGED scratch
    /\ StripFrame

SaveOutcomes == {"none", "keeps_exif", "OSError", "ValueError", "other"}

\* mutant: the image is saved over the original instead of into the temp file
SaveWritesInPlace(file, temp, outcome) ==
    [file |-> IF outcome \in {"none", "keeps_exif"}
              THEN [file EXCEPT !.data = Stripped(outcome = "keeps_exif")]
              ELSE [file EXCEPT !.data = Junk],
     temp |-> temp]

\* lines 187-188: img.save(temp_path, ...) writes the temp file and nothing
\* else; a save that raised leaves it empty or partly written
SaveWrites(file, temp, outcome) ==
    [file |-> file,
     temp |-> IF outcome \in {"none", "keeps_exif"}
              THEN [exists |-> TRUE, data |-> Stripped(outcome = "keeps_exif"),
                    complete |-> TRUE]
              ELSE [exists |-> TRUE, data |-> Junk, complete |-> FALSE]]

\* lines 187-188: open the original again and save it to the temp file; the
\* save may raise OSError, ValueError, or an exception of another class
StripSave ==
    /\ strip_pc = "save"
    /\ \E outcome \in SaveOutcomes :
         LET w == SaveWrites(scratch, temp_file, outcome)
         IN  /\ scratch' = w.file
             /\ temp_file' = w.temp
             /\ IF outcome \in {"none", "keeps_exif"}
                THEN strip_pc' = "replace" /\ strip_error' = strip_error
                ELSE strip_pc' = "except" /\ strip_error' = outcome
    /\ UNCHANGED temp_path
    /\ StripFrame

\* lines 191-192: os.replace(temp_path, file_path); temp_path = None
StripReplace ==
    /\ strip_pc = "replace"
    /\ \E ok \in BOOLEAN :
         IF ok
         THEN /\ scratch' = [scratch EXCEPT !.data = temp_file.data]
              /\ temp_file' = NoTemp
              /\ temp_path' = FALSE
              /\ strip_pc' = "done"
              /\ strip_error' = strip_error
         ELSE /\ strip_pc' = "except"
              /\ strip_error' = "OSError"
              /\ UNCHANGED << scratch, temp_file, temp_path >>
    /\ StripFrame

\* lines 195-206: the two except clauses unlink the temp file and raise
\* again; an exception of any other class passes through both of them
StripExcept ==
    /\ strip_pc = "except"
    /\ temp_file' = IF strip_error \in {"OSError", "ValueError"} /\ temp_path
                        /\ temp_file.exists
                    THEN NoTemp ELSE temp_file
    /\ strip_pc' = "failed"
    /\ UNCHANGED << scratch, temp_path, strip_error >>
    /\ StripFrame

MaxStripCalls == 2

\* lines 258-259 as _process_file calls it after _strip_exif returned:
\* _exif_removed opens the file and reads its metadata, once
StripVerify ==
    /\ strip_pc = "done"
    /\ steps.verify = "no"
    /\ \E fault \in VerifyFaults :
          steps' = [steps EXCEPT !.verify = ExifRemoved(scratch, fault)]
    /\ UNCHANGED << param_cache, param_cache_timestamp, now, config_calls,
                    get_config_count, config_raised, last_fetch, strip_pc, temp_file,
                    temp_path, strip_error, strip_input, strip_calls, strip_original,
                    callers, s3, record_count, idx, record, pc, config,
                    processed_count, failed_records, result, scratch, strip_tmp, raised,
                    calls, handled, relocated, failures >>

\* _strip_exif is called again on the file _exif_removed has examined
StripAgain ==
    /\ strip_pc = "done"
    /\ steps.verify # "no"
    /\ strip_calls < MaxStripCalls
    /\ strip_calls' = strip_calls + 1
    /\ strip_input' = scratch
    /\ strip_pc' = "open"
    /\ UNCHANGED << param_cache, param_cache_timestamp, now, config_calls,
                    get_config_count, config_raised, last_fetch, temp_file, temp_path,
                    strip_error, strip_original, callers, s3, record_count, idx,
                    record, pc, config,
                    processed_count, failed_records, result, scratch, strip_tmp, raised,
                    calls, steps, handled, relocated, failures >>

NextStrip ==
    \/ StripVerify
    \/ StripAgain
    \/ StripOpen
    \/ StripMakeTemp
    \/ StripSave
    \/ StripReplace
    \/ StripExcept

SpecStrip == InitStrip /\ [][NextStrip]_vars

(***************************************************************************)
(* The configuration cache on its own: a warm container calls _get_config  *)
(* again and again while time.time() advances.                             *)
(***************************************************************************)
MaxConfigCalls == 3

MaxClock == 900

\* what the parameter store may answer: the answers of SsmResponses and
\* answers with other sizes and a blank destination
ConfigResponses ==
    SsmResponses \cup
    { SsmResponse("none", ParamNames, IngestBucket, ProcessedBucket, "kms-arn", "0"),
      SsmResponse("none", ParamNames, IngestBucket, ProcessedBucket, "kms-arn", "-5"),
      SsmResponse("none", ParamNames, IngestBucket, "", "kms-arn", "1") }

InitConfig ==
    /\ Init
    /\ record_count = 0
    /\ pc = "start"

\* _get_config, lines 272-364, called by a new invocation
GetConfigCall ==
    /\ get_config_count < MaxConfigCalls
    /\ \E resp \in ConfigResponses, headIngest \in CallOutcomes, headProcessed \in CallOutcomes :
         LET got == GetConfig(param_cache, param_cache_timestamp, now, resp,
                              headIngest, headProcessed)
         IN  /\ param_cache' = got.cache
             /\ param_cache_timestamp' = got.timestamp
             /\ config_calls' = got.calls
             /\ get_config_count' = get_config_count + 1
             /\ config_raised' = got.raised
             /\ last_fetch' = Fetched(last_fetch, got, now)
             /\ config' = IF got.raised THEN config ELSE got.config
    /\ UNCHANGED << strip_pc, temp_file, temp_path, strip_error, strip_input, strip_calls, strip_original,
                    callers >>
    /\ UNCHANGED << now, s3, record_count, idx, record, pc, processed_count,
                    failed_records, result, scratch, strip_tmp, raised, calls, steps,
                    handled, relocated, failures >>

\* time.time() moves on between two invocations
Tick ==
    /\ \E d \in {PARAM_CACHE_TTL_SECONDS - 1, PARAM_CACHE_TTL_SECONDS} :
         /\ now + d <= MaxClock
         /\ now' = now + d
    /\ UNCHANGED << strip_pc, temp_file, temp_path, strip_error, strip_input, strip_calls, strip_original,
                    callers >>
    /\ UNCHANGED << param_cache, param_cache_timestamp, config_calls, get_config_count,
                    config_raised, last_fetch, s3, record_count, idx, record, pc, config,
                    processed_count, failed_records, result, scratch, strip_tmp, raised,
                    calls, steps, handled, relocated, failures >>

NextConfig ==
    \/ GetConfigCall
    \/ Tick

SpecConfig == InitConfig /\ [][NextConfig]_vars

(***************************************************************************)
(* Properties.                                                             *)
(***************************************************************************)
Issued(op) == \E i \in DOMAIN calls : calls[i].op = op

CountCalls(op) == Cardinality({i \in DOMAIN calls : calls[i].op = op})

\* a file the classifier is meant to accept: JPEG extension, JPEG format tag,
\* structurally intact
ValidJpegFile(ext, data) ==
    /\ ext \in {".jpg", ".jpeg", ".JPG", ".JPEG"}
    /\ data.format = "JPEG"
    /\ data.verifies

\* C1: an upload for a key is issued only for the event being processed, only
\* when that event passed the size check, was downloaded, was classified as a
\* valid JPEG, was stripped without raising and was verified metadata-free;
\* so every object the pipeline has put into the blob store is a valid JPEG
\* without metadata.
C1_UploadOnlyVerified ==
    /\ \A i \in DOMAIN calls :
         calls[i].op = "upload" =>
           /\ calls[i].key = record.key
           /\ record.has_size /\ record.size <= config.file_max_size
           /\ steps = [classify |-> "true", strip |-> "ok", verify |-> "true"]
           /\ \E j \in 1..(i - 1) : calls[j].op = "download" /\ calls[j].ok
    /\ \A o \in (Buckets \X Keys) \ Objects :
         s3[o] # Absent => ValidJpegFile(o[2].ext, s3[o]) /\ ~s3[o].exif

C1_Witness ==
    /\ pc = "delete"
    /\ Issued("upload")
    /\ s3[<<config.processed_bucket, record.key>>] # Absent

\* C2: an event whose declared size is missing or greater than the maximum
\* ends with exactly one blob-store call, the delete of its source object: no
\* download, no scratch file, no upload; an event whose declared size equals
\* the maximum is not rejected: no delete is issued for its size, and it goes
\* on to the scratch file and the download step (or raises with no call at
\* all when the scratch file cannot be created).
C2_OversizeNeverDownloaded ==
    record # NoRecord =>
      IF ~record.has_size \/ record.size > config.file_max_size
      THEN /\ pc = "return"
           /\ Len(calls) = 1
           /\ calls[1].op = "delete"
           /\ calls[1].bucket = record.bucket /\ calls[1].key = record.key
           /\ ~scratch.exists
      ELSE /\ \/ pc = "download"
              \/ calls # << >> /\ calls[1].op = "download"
              \/ pc = "return" /\ raised /\ calls = << >>
           /\ pc \notin {"cleanup", "return"} => scratch.exists

C2_Witness ==
    /\ pc = "return"
    /\ record.has_size
    /\ record.size > config.file_max_size
    /\ calls[1].ok

C2_WitnessAtLimit ==
    /\ pc = "classify"
    /\ record.has_size
    /\ record.size = config.file_max_size

\* the events of the batch named pairwise different keys
DistinctKeys == Cardinality({e.key : e \in handled}) = idx

BatchDone == pc = "done" /\ result.counted

AtDestination(key) == s3[<<config.processed_bucket, key>>] # Absent

AtSource(bucket, key) == s3[<<bucket, key>>] # Absent

\* C3 as stated: with no blob-store failure and distinct keys, every
\* within-limit valid JPEG ends at the destination and not at the source, and
\* every other event's object ends at neither.
C3_Original ==
    (BatchDone /\ failures = {} /\ DistinctKeys) =>
      \A e \in handled :
        IF ~e.rejected /\ ValidJpegFile(e.key.ext, ObjectData(e.key))
        THEN AtDestination(e.key) /\ ~AtSource(e.bucket, e.key)
        ELSE ~AtDestination(e.key) /\ ~AtSource(e.bucket, e.key)

\* no event handled so far left _process_record by an exception
NoneRaised == \A e \in handled : ~e.raised

\* C3, what the code does: with no blob-store failure and distinct keys, an
\* event that left _process_record by an exception (the scratch file could not
\* be created, or _is_jpeg raised an exception it does not catch) has its
\* object still at the source, unchanged, and not at the destination; a
\* within-limit valid JPEG whose strip and verification succeeded ends at the
\* destination without metadata and not at the source; every other event's
\* object ends at neither.
C3_Outcomes ==
    (BatchDone /\ failures = {} /\ DistinctKeys) =>
      \A e \in handled :
        IF e.raised
        THEN /\ s3[<<e.bucket, e.key>>] = ObjectData(e.key)
             /\ ~AtDestination(e.key)
        ELSE IF ~e.rejected /\ ValidJpegFile(e.key.ext, ObjectData(e.key)) /\ e.verified
        THEN /\ AtDestination(e.key)
             /\ ~s3[<<config.processed_bucket, e.key>>].exif
             /\ ~AtSource(e.bucket, e.key)
        ELSE ~AtDestination(e.key) /\ ~AtSource(e.bucket, e.key)

\* a batch without any blob-store failure has ended and the object of one of
\* its events, which is no valid JPEG, is still at the source
C3_LeftAtSource ==
    /\ BatchDone /\ failures = {} /\ DistinctKeys
    /\ \E e \in handled :
          /\ e.raised
          /\ ~e.rejected
          /\ ~ValidJpegFile(e.key.ext, ObjectData(e.key))
          /\ AtSource(e.bucket, e.key)

\* _is_jpeg has just raised out of _process_file: no delete was issued and
\* the object is at the source
C3_ClassifierRaised ==
    /\ pc = "cleanup"
    /\ failures = {}
    /\ raised
    /\ steps.classify = "raised"
    /\ calls # << >>
    /\ \A i \in DOMAIN calls : calls[i].op = "download" /\ calls[i].ok
    /\ AtSource(record.bucket, record.key)

\* a valid JPEG whose strip or verification did not succeed was discarded
C3_Witness ==
    /\ BatchDone /\ failures = {} /\ NoneRaised /\ DistinctKeys
    /\ \E e \in handled : e.verified /\ ObjectData(e.key).exif
    /\ \E e \in handled :
          ~e.rejected /\ ValidJpegFile(e.key.ext, ObjectData(e.key)) /\ ~e.verified

\* C4 as stated: 'processed' counts only the relocated files and 'failed'
\* every other file of the batch.
C4_Original ==
    (BatchDone /\ failures = {}) =>
      /\ result.processed = relocated
      /\ result.failed = result.total - relocated

\* C4 amended: 'processed' counts every event whose processing returned
\* without raising, relocated or discarded, and 'failed' counts the events
\* whose processing raised; a batch in which no event raised, invalid inputs
\* included, reports processed = total and failed = 0.
C4_ProcessedCountsDiscards ==
    BatchDone =>
      /\ result.total = record_count
      /\ result.processed + result.failed = result.total
      /\ relocated <= result.processed
      /\ NoneRaised => (result.processed = result.total /\ result.failed = 0)
      /\ ~NoneRaised => result.failed >= 1
      /\ DistinctKeys =>
           /\ result.processed = Cardinality({e \in handled : ~e.raised})
           /\ result.failed = Cardinality({e \in handled : e.raised})

C4_Witness ==
    /\ BatchDone /\ failures = {} /\ NoneRaised
    /\ result.total = 2
    /\ relocated = 1
    /\ result.processed = 2
    /\ result.failed = 0

FailedUpload == \E i \in DOMAIN calls : calls[i].op = "upload" /\ ~calls[i].ok

\* C5 as stated: when the upload fails the source object is still deleted.
C5_Original ==
    (FailedUpload /\ pc = "return") => ~AtSource(record.bucket, record.key)

\* C5 amended: when the upload of a verified file fails, no delete is issued:
\* the source object stays in the ingest location and the failure
\* propagates out of _process_record.
C5_FailedUploadKeepsSource ==
    FailedUpload =>
      /\ pc \in {"cleanup", "return"}
      /\ steps.verify = "true"
      /\ ~Issued("delete")
      /\ AtSource(record.bucket, record.key)
      /\ raised

C5_Witness == FailedUpload /\ pc = "return"

AllCallsOk == \A i \in DOMAIN calls : calls[i].ok

Relocated ==
    \E i, j \in DOMAIN calls :
      /\ i < j
      /\ calls[i].op = "upload" /\ calls[i].ok
      /\ calls[j].op = "delete" /\ calls[j].ok

Discarded ==
    /\ ~Issued("upload")
    /\ \E j \in DOMAIN calls : calls[j].op = "delete" /\ calls[j].ok

\* C6 as stated: every event that reaches the download step ends with
\* exactly one of a relocate and a discard.
C6_Original ==
    (pc = "return" /\ Issued("download")) =>
      /\ Relocated \/ Discarded
      /\ ~(Relocated /\ Discarded)

\* a blob-store call of the event raised
FailedCall == \E i \in DOMAIN calls : ~calls[i].ok

\* the deletes of the event that went through
Deletions == {i \in DOMAIN calls : calls[i].op = "delete" /\ calls[i].ok}

\* C6 amended: every event that reaches the download step has its source
\* object deleted at most once, never by a relocate and a discard both; it
\* ends with exactly one of the two when its processing returns, and with
\* no delete that went through when its processing raises (the last
\* blob-store call failed, or _is_jpeg raised).  A size-rejected event issues
\* no download.
C6_AtMostOneMutation ==
    (pc = "return" /\ record # NoRecord) =>
      /\ CountCalls("download") <= 1
      /\ CountCalls("upload") <= 1
      /\ Cardinality(Deletions) <= 1
      /\ ~(Relocated /\ Discarded)
      /\ (Issued("download") /\ ~raised) =>
           /\ Relocated \/ Discarded
           /\ ~AtSource(record.bucket, record.key)
      /\ raised =>
           /\ Deletions = {}
           /\ FailedCall => ~calls[Len(calls)].ok
           /\ ~FailedCall => (steps.classify = "raised" \/ calls = << >>)
      /\ SizeRejected(record, config.file_max_size) => ~Issued("download")

C6_Witness ==
    /\ pc = "return"
    /\ Issued("download")
    /\ Discarded
    /\ steps.classify = "false"

\* C7: whenever _process_record has returned or raised, on every path, the
\* scratch file it created no longer exists.
C7_ScratchRemoved ==
    pc \in {"return", "record", "finish", "done"} => ~scratch.exists

C7_Witness ==
    /\ pc = "return"
    /\ raised
    /\ Issued("upload")
    /\ ~scratch.exists

C7_WitnessDownloadFailed ==
    pc = "return" /\ raised /\ Len(calls) = 1 /\ calls[1].op = "download"

\* C8: the delete of a verified file's source object is issued only after
\* the upload of that key has returned successfully; a verified file that is
\* gone from the source is at the destination.
C8_DeleteAfterUpload ==
    steps.verify = "true" =>
      /\ \A i \in DOMAIN calls :
           calls[i].op = "delete" =>
             \E j \in 1..(i - 1) :
               /\ calls[j].op = "upload"
               /\ calls[j].ok
               /\ calls[j].key = record.key
               /\ calls[j].bucket = config.processed_bucket
      /\ ~AtSource(record.bucket, record.key) => AtDestination(record.key)

C8_Witness ==
    /\ steps.verify = "true"
    /\ pc = "cleanup"
    /\ Relocated
    /\ ~AtSource(record.bucket, record.key)

FailedDownload == calls # << >> /\ calls[1].op = "download" /\ ~calls[1].ok

\* C9: when the download fails, the download is the only blob-store call
\* issued for the event (no delete, no upload), the failure propagates out of
\* _process_record, and lambda_handler appends the key to failed_records
\* without counting the record as processed.
C9_FailedDownloadIsFailure ==
    /\ [](FailedDownload =>
            /\ pc \in {"cleanup", "return"}
            /\ Len(calls) = 1
            /\ steps = NoSteps
            /\ raised)
    /\ [][(FailedDownload /\ pc = "return") =>
            /\ failed_records' = Append(failed_records, record.key)
            /\ processed_count' = processed_count]_vars

C9_Witness ==
    /\ FailedDownload
    /\ pc = "return"
    /\ AtSource(record.bucket, record.key)

FailedStep ==
    \/ steps.classify = "false"
    \/ steps.strip = "raised"
    \/ steps.verify \in {"false", "raised"}

\* C10: after a successful download, when the classifier returns false, strip
\* raises, the verifier returns false or the verifier raises, _process_file
\* issues the delete of the source object and stops: no later step runs, no
\* upload is issued, and the only calls after the download are deletes of
\* the event's object.
C10_FailedStepDiscards ==
    FailedStep =>
      /\ pc \in {"cleanup", "return"}
      /\ Len(calls) >= 2
      /\ calls[1].op = "download" /\ calls[1].ok
      /\ \A i \in 2..Len(calls) :
           /\ calls[i].op = "delete"
           /\ calls[i].bucket = record.bucket /\ calls[i].key = record.key
      /\ steps.classify = "false" => (steps.strip = "no" /\ steps.verify = "no")
      /\ steps.strip = "raised" => steps.verify = "no"
      /\ calls[Len(calls)].ok => ~AtSource(record.bucket, record.key)
      /\ ~Issued("upload")

C10_Witness ==
    /\ pc = "return"
    /\ steps = [classify |-> "true", strip |-> "ok", verify |-> "false"]
    /\ ~AtSource(record.bucket, record.key)

C10_WitnessClassify == pc = "return" /\ steps.classify = "false"

C10_WitnessStrip == pc = "return" /\ steps.strip = "raised"

C10_WitnessVerifyRaised == pc = "return" /\ steps.verify = "raised"

(***************************************************************************)
(* _get_config called from several threads.  The function takes no lock,   *)
(* so the callers interleave between its statements; each action below is  *)
(* one statement (or one run of statements that touch no shared state) of  *)
(* one caller.                                                             *)
(***************************************************************************)
InitConcurrent ==
    /\ Init
    /\ record_count = 0

\* what a statement of _get_config leaves alone
ConcFrame ==
    UNCHANGED << config_calls, get_config_count, config_raised, last_fetch, strip_pc,
                 temp_file, temp_path, strip_error, strip_input, strip_calls, strip_original, s3,
                 record_count, idx, record, pc, config, processed_count,
                 failed_records, result, scratch, strip_tmp, raised, calls, steps,
                 handled, relocated, failures >>

At(c, position) == callers[c].pc = position

Goto(c, position) == callers' = [callers EXCEPT ![c].pc = position]

\* the call ends: it returns `value`, or raises when `ret` names an exception
Return(c, ret, value) ==
    callers' = [callers EXCEPT ![c] = [NoCaller EXCEPT !.ret = ret, !.value = value]]

\* a thread enters _get_config
ConcCall ==
    /\ \E c \in Callers :
         /\ At(c, "idle")
         /\ callers' = [callers EXCEPT ![c] = [NoCaller EXCEPT !.pc = "check"]]
    /\ UNCHANGED << param_cache, param_cache_timestamp, now >>
    /\ ConcFrame

\* line 285, left operand: `_param_cache` is loaded and tested; an empty
\* cache ends the test
ConcCheck ==
    /\ \E c \in Callers :
         /\ At(c, "check")
         /\ Goto(c, IF param_cache.keys # {} THEN "check_timestamp" ELSE "fetch")
    /\ UNCHANGED << param_cache, param_cache_timestamp, now >>
    /\ ConcFrame

\* line 285, right operand: `_param_cache_timestamp` is loaded and tested
ConcCheckTimestamp ==
    /\ \E c \in Callers :
         /\ At(c, "check_timestamp")
         /\ Goto(c, IF param_cache_timestamp.set THEN "age" ELSE "fetch")
    /\ UNCHANGED << param_cache, param_cache_timestamp, now >>
    /\ ConcFrame

\* line 286, left operand: time.time() is called and its value kept
ConcAgeClock ==
    /\ \E c \in Callers :
         /\ At(c, "age")
         /\ callers' = [callers EXCEPT ![c].pc = "age_subtract", ![c].clock = now]
    /\ UNCHANGED << param_cache, param_cache_timestamp, now >>
    /\ ConcFrame

\* lines 286-287: _param_cache_timestamp is loaded and subtracted from the
\* clock value; the subtraction raises TypeError when another caller has set
\* the timestamp to None
ConcAge ==
    /\ \E c \in Callers :
         /\ At(c, "age_subtract")
         /\ IF ~param_cache_timestamp.set
            THEN Return(c, "TypeError", Unavailable)
            ELSE Goto(c, IF callers[c].clock - param_cache_timestamp.at
                                < PARAM_CACHE_TTL_SECONDS
                         THEN "read" ELSE "clear")
    /\ UNCHANGED << param_cache, param_cache_timestamp, now >>
    /\ ConcFrame

\* where a caller stands before the subscript of a key in lines 290-293
ReadAt(key) == IF key = "ingest_bucket" THEN "read" ELSE "read_" \o key

\* the subscript that follows the subscript of a key, lines 290-293
AfterRead(key) ==
    CASE key = "ingest_bucket"    -> "read_processed_bucket"
      [] key = "processed_bucket" -> "read_file_max_size"
      [] key = "file_max_size"    -> "read_processed_kms_key_arn"

\* lines 289-294: the return statement evaluates the four subscripts one
\* after the other, each on the cache as it is at that moment; a missing key
\* raises KeyError, and after the fourth the tuple is returned
ConcRead ==
    /\ \E c \in Callers, key \in CacheKeys :
         /\ At(c, ReadAt(key))
         /\ IF key \notin param_cache.keys
            THEN Return(c, "KeyError", Unavailable)
            ELSE LET got == [callers[c].fetched EXCEPT ![key] = param_cache[key]]
                 IN  IF key = "processed_kms_key_arn"
                     THEN Return(c, "config", [got EXCEPT !.none = FALSE])
                     ELSE callers' = [callers EXCEPT ![c].pc = AfterRead(key),
                                                     ![c].fetched = got]
    /\ UNCHANGED << param_cache, param_cache_timestamp, now >>
    /\ ConcFrame

\* line 297: _param_cache.clear()
ConcClear ==
    /\ \E c \in Callers :
         /\ At(c, "clear")
         /\ Goto(c, "clear_timestamp")
    /\ param_cache' = EmptyCache
    /\ UNCHANGED << param_cache_timestamp, now >>
    /\ ConcFrame

\* line 298: _param_cache_timestamp = None
ConcClearTimestamp ==
    /\ \E c \in Callers :
         /\ At(c, "clear_timestamp")
         /\ Goto(c, "fetch")
    /\ param_cache_timestamp' = NoTimestamp
    /\ UNCHANGED << param_cache, now >>
    /\ ConcFrame

\* how a network call of _get_config ends for its caller: a ClientError is
\* caught (lines 344 and 362) and the call returns Unavailable, an exception
\* of another class leaves _get_config
CallFailed(c, error) ==
    IF error = "ClientError" THEN Return(c, "Unavailable", Unavailable)
    ELSE Return(c, error, Unavailable)

\* lines 300-340: get_parameters, the count check, the parsing into locals,
\* and the validation of the ingest bucket name up to its head_bucket call
ConcFetch ==
    /\ \E c \in Callers :
         /\ At(c, "fetch")
         /\ \E resp \in SsmResponses :
              IF resp.error # "none" THEN CallFailed(c, resp.error)
              ELSE IF ~CountOk(resp) \/ HeadCalls(resp, "none", "none") = << >>
              THEN Return(c, "Unavailable", Unavailable)
              ELSE callers' = [callers EXCEPT ![c].pc = "head_ingest",
                                              ![c].resp = resp]
    /\ UNCHANGED << param_cache, param_cache_timestamp, now >>
    /\ ConcFrame

\* lines 336-346, first turn of the loop: head_bucket on the ingest bucket,
\* then the validation of the processed bucket name
ConcHeadIngest ==
    /\ \E c \in Callers :
         /\ At(c, "head_ingest")
         /\ \E error \in CallOutcomes :
              IF error # "none" THEN CallFailed(c, error)
              ELSE IF Len(HeadCalls(callers[c].resp, "none", "none")) < 2
              THEN Return(c, "Unavailable", Unavailable)
              ELSE Goto(c, "head_processed")
    /\ UNCHANGED << param_cache, param_cache_timestamp, now >>
    /\ ConcFrame

\* lines 336-350, second turn of the loop: head_bucket on the processed
\* bucket, then the check of the KMS key
ConcHeadProcessed ==
    /\ \E c \in Callers :
         /\ At(c, "head_processed")
         /\ \E error \in CallOutcomes :
              LET fetched == ValidateParams(callers[c].resp, TRUE, TRUE)
              IN  IF error # "none" THEN CallFailed(c, error)
                  ELSE IF fetched.none
                  THEN Return(c, "Unavailable", Unavailable)
                  ELSE callers' = [callers EXCEPT ![c].pc = "fill_ingest_bucket",
                                                  ![c].resp = NoResponse,
                                                  ![c].fetched = fetched]
    /\ UNCHANGED << param_cache, param_cache_timestamp, now >>
    /\ ConcFrame

\* the statement that follows the assignment of a cache key, lines 353-357
AfterFill(key) ==
    CASE key = "ingest_bucket"         -> "fill_processed_bucket"
      [] key = "processed_bucket"      -> "fill_file_max_size"
      [] key = "file_max_size"         -> "fill_processed_kms_key_arn"
      [] key = "processed_kms_key_arn" -> "stamp"

\* lines 353-356: _param_cache[key] = value, one key per statement
ConcFill ==
    /\ \E c \in Callers, key \in CacheKeys :
         /\ At(c, "fill_" \o key)
         /\ param_cache' = [param_cache EXCEPT !.keys = @ \cup {key},
                                               ![key] = callers[c].fetched[key]]
         /\ Goto(c, AfterFill(key))
    /\ UNCHANGED << param_cache_timestamp, now >>
    /\ ConcFrame

\* line 357, right-hand side: time.time() is called and its value kept
ConcStampClock ==
    /\ \E c \in Callers :
         /\ At(c, "stamp")
         /\ callers' = [callers EXCEPT ![c].pc = "stamp_store", ![c].clock = now]
    /\ UNCHANGED << param_cache, param_cache_timestamp, now >>
    /\ ConcFrame

\* lines 357-360: the clock value is stored in _param_cache_timestamp and the
\* tuple is returned
ConcStamp ==
    /\ \E c \in Callers :
         /\ At(c, "stamp_store")
         /\ param_cache_timestamp' = [set |-> TRUE, at |-> callers[c].clock]
         /\ Return(c, "config", callers[c].fetched)
    /\ UNCHANGED << param_cache, now >>
    /\ ConcFrame

\* time.time() moves on by the TTL
ConcTick ==
    /\ now + PARAM_CACHE_TTL_SECONDS <= MaxClock
    /\ now' = now + PARAM_CACHE_TTL_SECONDS
    /\ UNCHANGED << param_cache, param_cache_timestamp, callers >>
    /\ ConcFrame

NextConcurrent ==
    \/ ConcCall
    \/ ConcCheck
    \/ ConcCheckTimestamp
    \/ ConcAgeClock
    \/ ConcAge
    \/ ConcRead
    \/ ConcClear
    \/ ConcClearTimestamp
    \/ ConcFetch
    \/ ConcHeadIngest
    \/ ConcHeadProcessed
    \/ ConcFill
    \/ ConcStampClock
    \/ ConcStamp
    \/ ConcTick

SpecConcurrent == InitConcurrent /\ [][NextConcurrent]_vars

(***************************************************************************)
(* The batch loop and the configuration fetch of lambda_handler.           *)
(***************************************************************************)
HandlerLeft == pc \in {"done", "crashed"}

ConfigError == pc = "done" /\ config.none

\* C11: lambda_handler calls _get_config exactly once per batch; when it
\* yields no config the handler issues no download, upload or delete for any
\* event and returns a configuration-error result that reports processed=0.
C11_Original ==
    /\ HandlerLeft => get_config_count = 1
    /\ ConfigError =>
          /\ calls = << >>
          /\ idx = 0
          /\ \A o \in Objects : s3[o] = ObjectData(o[2])
          /\ result.status = "error"
          /\ result.counted
          /\ result.processed = 0

\* C12: the records of a batch are taken one at a time in index order, each
\* entering _process_record exactly once, and a record that raised is
\* followed by the next record exactly as one that did not: the batch ends
\* only when every record has been handled.
C12_InOrderNoAbort ==
    /\ [](BatchDone => idx = record_count)
    /\ [](pc \in {"download", "classify", "strip", "verify", "upload", "delete",
                  "cleanup", "return"} => record # NoRecord /\ idx < record_count)
    /\ [][/\ idx' \in {idx, idx + 1}
          /\ (idx' = idx + 1) <=> (pc = "return")
          /\ pc = "record" => (record' # NoRecord /\ pc' \in {"download", "return"})
          /\ (pc = "return" /\ idx + 1 < record_count) =>
                (pc' = "record" /\ record' = NoRecord /\ calls' = << >>)
          /\ pc' = "finish" => (pc = "start" \/ idx' = record_count)]_vars

\* the second record is in its pipeline after the first one raised
C12_Witness ==
    /\ pc = "classify"
    /\ idx = 1
    /\ failed_records # << >>
    /\ processed_count = 0

\* C13: lambda_handler never raises past its own boundary: whatever fails in
\* the parameter store, the blob store or a per-file step, it returns a
\* structured result.
C13_Original ==
    HandlerLeft => (pc = "done" /\ result.status \in {"success", "error", "partial_failure"})

\* C14: with config available, status is "success" exactly when no record
\* raised (the empty batch included), "error" exactly when the batch has at
\* least one record and every record raised, and "partial_failure" otherwise.
C14_StatusClassification ==
    BatchDone =>
      LET failed == Len(failed_records)
      IN  /\ result.total = record_count
          /\ result.failed = failed
          /\ result.processed = record_count - failed
          /\ (result.status = "success") <=> (failed = 0)
          /\ (result.status = "error") <=> (record_count > 0 /\ failed = record_count)
          /\ (result.status = "partial_failure") <=>
                (failed > 0 /\ failed < record_count)

C14_Witness ==
    /\ BatchDone
    /\ result.status = "partial_failure"
    /\ result.processed = 1

C14_WitnessEmpty == BatchDone /\ record_count = 0 /\ result.status = "success"

C14_WitnessError == BatchDone /\ record_count = MaxRecords /\ result.status = "error"

(***************************************************************************)
(* The configuration cache.                                                *)
(***************************************************************************)
ConfigCalled == get_config_count' = get_config_count + 1

ParameterFetches(log) ==
    Cardinality({i \in DOMAIN log : log[i].op = "get_parameters"})

\* a fetch that succeeded is younger than the TTL
WithinTTL == last_fetch.set /\ now - last_fetch.at < PARAM_CACHE_TTL_SECONDS

\* a fetch that succeeded is as old as the TTL or older
PastTTL == last_fetch.set /\ now - last_fetch.at >= PARAM_CACHE_TTL_SECONDS

\* C15: after a fetch that succeeded, every _get_config call made less than
\* 300 seconds after it returns the four values of that fetch and issues no
\* parameter-store and no blob-store call; a call made once the TTL has
\* expired issues exactly one parameter fetch.
C15_CacheHitWithinTTL ==
    [][ConfigCalled =>
          /\ WithinTTL =>
                /\ config_calls' = << >>
                /\ ~config_raised'
                /\ config' = last_fetch.config
                /\ last_fetch' = last_fetch
          /\ PastTTL =>
                /\ ParameterFetches(config_calls') = 1
                /\ config_calls'[1].op = "get_parameters"]_vars

\* a second call was served from the cache 299 seconds after the fetch
C15_Witness ==
    /\ get_config_count >= 2
    /\ last_fetch.set
    /\ now - last_fetch.at = PARAM_CACHE_TTL_SECONDS - 1
    /\ config_calls = << >>
    /\ config = last_fetch.config

\* a call made exactly 300 seconds after the fetch fetched again
C15_WitnessExpired ==
    /\ get_config_count >= 2
    /\ now = PARAM_CACHE_TTL_SECONDS
    /\ last_fetch.set
    /\ last_fetch.at = now
    /\ ParameterFetches(config_calls) = 1

Blank(s) == Falsy(s) \/ StrStrip(s) = ""

\* the latest _get_config call fetched, and the answer was short of four
\* parameters, named a blank location, lacked the key reference, or an
\* existence check failed
FetchRejected ==
    /\ config_calls # << >>
    /\ config_calls[1].error = "none"
    /\ LET resp == config_calls[1].resp
       IN  \/ Cardinality(resp.names) # 4
           \/ Blank(ParamGet(resp, "ingest-bucket", resp.ingest_bucket))
           \/ Blank(ParamGet(resp, "processed-bucket", resp.processed_bucket))
           \/ Falsy(ParamGet(resp, "processed-kms-key-arn", resp.processed_kms_key_arn))
           \/ \E i \in DOMAIN config_calls :
                 config_calls[i].op = "head_bucket" /\ config_calls[i].error # "none"

\* C16: a fetch returns Unavailable and leaves the cache unpopulated whenever
\* the parameter store returns a number of parameters other than four, a
\* source or destination location is empty or blank, the key reference is
\* missing, or the existence check of either location fails.
C16_Original ==
    FetchRejected =>
      /\ ~config_raised
      /\ config = Unavailable
      /\ param_cache = EmptyCache
      /\ param_cache_timestamp = NoTimestamp

\* C17: every config returned as available has a non-empty source location,
\* a non-empty destination location, a non-empty key reference and a strictly
\* positive maximum file size.
C17_Original ==
    (get_config_count > 0 /\ ~config_raised /\ ~config.none) =>
      /\ ~Falsy(config.ingest_bucket)
      /\ ~Falsy(config.processed_bucket)
      /\ ~Falsy(config.processed_kms_key_arn)
      /\ config.file_max_size > 0

\* the refresh of the latest call failed in the parameter store or in an
\* existence check
RefreshFailed(log) == \E i \in DOMAIN log : log[i].error # "none"

\* C18: when the cached config has expired and the refresh fails in the
\* parameter store or in an existence check, _get_config returns Unavailable
\* and not the cached value, the expired entry is cleared, and the next call
\* fetches again.
C18_Original ==
    [][ConfigCalled =>
          /\ (PastTTL /\ CacheHit(param_cache, param_cache_timestamp)
                  /\ RefreshFailed(config_calls')) =>
                /\ ~config_raised'
                /\ config' = Unavailable
                /\ param_cache' = EmptyCache
                /\ param_cache_timestamp' = NoTimestamp
          /\ param_cache = EmptyCache => ParameterFetches(config_calls') = 1]_vars

(***************************************************************************)
(* _strip_exif.                                                            *)
(***************************************************************************)
\* C19: if _strip_exif fails at any point the original file is exactly what
\* it was before the call; the original changes only in the one os.replace
\* step, taken when the temp file is completely written and closed, so at no
\* position before it is the original anything but its initial content.
C19_OriginalUntouchedOnFailure ==
    /\ [](strip_pc # "done" => scratch = strip_input)
    /\ [][scratch' # scratch =>
            /\ strip_pc = "replace"
            /\ strip_pc' = "done"
            /\ temp_file.complete
            /\ scratch'.data = temp_file.data]_vars

\* the save into the temp file failed and the error has surfaced
C19_Witness ==
    /\ strip_pc = "failed"
    /\ strip_error = "ValueError"
    /\ strip_input.data = JpegExif
    /\ scratch = strip_input

C19_WitnessReplaced ==
    /\ strip_pc = "done"
    /\ strip_input.data = JpegExif
    /\ scratch.data = JpegClean

C19_WitnessReplaceFailed ==
    /\ strip_pc = "failed"
    /\ temp_path
    /\ strip_error = "OSError"
    /\ scratch = strip_input

\* C20: whenever _strip_exif surfaces an error after creating its temp file,
\* the temp file has been removed, and none remains after a successful strip.
C20_Original ==
    strip_pc \in {"failed", "done"} => ~temp_file.exists

StripReturned == strip_pc = "done"

StripRaised == strip_pc = "failed"

\* C21 as stated: for every file that carries no metadata, _strip_exif
\* returns success without creating a temp file and without modifying the
\* file.
C21_Original ==
    (~strip_input.data.exif /\ (StripReturned \/ StripRaised)) =>
      /\ StripReturned
      /\ ~temp_path
      /\ ~temp_file.exists
      /\ scratch = strip_input

\* C21 amended: for a file that carries no metadata, _strip_exif never
\* creates a temp file and never modifies the file; it returns success
\* unless Image.open raises, and then it raises too; a file Pillow does not
\* recognise as an image always makes it raise.
C21_NoMetadataNoOp ==
    ~strip_input.data.exif =>
      /\ strip_pc \in {"open", "except", "done", "failed"}
      /\ ~temp_path
      /\ ~temp_file.exists
      /\ scratch = strip_input
      /\ strip_pc \in {"except", "failed"} <=> strip_error # "none"
      /\ StripReturned => strip_input.data.format # "NONE"

C21_Witness ==
    /\ StripReturned
    /\ strip_input.data = JpegClean
    /\ scratch = strip_input

C21_WitnessJunk == StripRaised /\ strip_input.data = Junk

\* the first call was made on a JPEG with metadata and has returned
StrippedOnce ==
    /\ strip_calls = 1
    /\ StripReturned
    /\ strip_input.data.format = "JPEG"
    /\ strip_input.data.exif

\* _exif_removed has been called on the file the first call left and has
\* returned or raised
VerifiedOnce == StrippedOnce /\ steps.verify # "no"

\* the file was a JPEG with metadata before the first call, and a second call
\* has been made on it
SecondCall ==
    /\ strip_calls = 2
    /\ strip_original.data.format = "JPEG"
    /\ strip_original.data.exif

\* C22 as stated: for every JPEG file with metadata, after _strip_exif
\* returns successfully _exif_removed on the same path returns true, and a
\* second _strip_exif call on it is a no-op that leaves the file unchanged.
C22_Original ==
    /\ VerifiedOnce => steps.verify = "true"
    /\ SecondCall =>
          /\ scratch = strip_input
          /\ ~temp_file.exists

\* C22 amended: after _strip_exif returns successfully on a JPEG with
\* metadata the file is the re-encoding img.save wrote; _exif_removed on the
\* same path either raises, as it does when Image.open fails on the file, or
\* returns true exactly when that re-encoding carries no metadata and false
\* when the encoder left metadata in it; and after it returned true a second
\* _strip_exif call creates no temp file and leaves the file unchanged.
C22_StripThenVerify ==
    /\ StrippedOnce =>
          /\ scratch.data \in {Stripped(FALSE), Stripped(TRUE)}
          /\ scratch.ext = strip_input.ext
    /\ VerifiedOnce =>
          /\ steps.verify \in {"true", "false", "raised"}
          /\ steps.verify = "true" => ~scratch.data.exif
          /\ steps.verify = "false" => scratch.data.exif
    /\ (SecondCall /\ steps.verify = "true") =>
          /\ strip_pc \in {"open", "except", "done", "failed"}
          /\ ~strip_input.data.exif
          /\ scratch = strip_input
          /\ ~temp_file.exists
          /\ ~temp_path

\* the whole round trip: a JPEG with metadata was stripped, _exif_removed
\* returned true on the result, and the second call on it has returned
C22_Witness ==
    /\ SecondCall
    /\ StripReturned
    /\ steps.verify = "true"
    /\ scratch = strip_input
    /\ scratch # strip_original

\* the encoder left metadata in the re-encoding and _exif_removed said so
C22_WitnessKeepsExif == VerifiedOnce /\ steps.verify = "false" /\ scratch.data.exif

\* Image.open failed inside _exif_removed on the stripped file
C22_WitnessVerifyRaised == VerifiedOnce /\ steps.verify = "raised"

\* the second call re-encodes a file whose metadata the first call kept
C22_WitnessSecondRewrites == SecondCall /\ steps.verify = "false" /\ temp_file.exists

(***************************************************************************)
(* Extensions, retries, upload parameters, counts.                         *)
(***************************************************************************)
\* the key's extension is missing or is not .jpg/.jpeg in any letter case
BadExtension(rec) == Lower(rec.key.ext) \notin {".jpg", ".jpeg"}

\* C23 as stated: _is_jpeg returns false for every path with a missing or
\* non-JPEG extension, and every event whose key has such an extension is
\* discarded and never uploaded.
C23_Original ==
    (pc = "return" /\ BadExtension(record)) =>
      /\ ~Issued("upload")
      /\ Issued("delete")

\* C23 amended: _is_jpeg returns false for every path with a missing or
\* non-JPEG extension whatever the file holds; the scratch file keeps the
\* key's extension, so an event whose key has such an extension never gets
\* past classification and is never uploaded, and the delete of its source
\* object is issued unless its download failed.
C23_BadExtensionNeverUploaded ==
    /\ \A e \in Extensions, d \in Data \cup {Junk} :
         Lower(e) \notin {".jpg", ".jpeg"} =>
           \A f \in ClassifyFaults :
               IsJpeg([ext |-> e, data |-> d, exists |-> TRUE], f) = "false"
    /\ (record # NoRecord /\ scratch.exists) => scratch.ext = record.key.ext
    /\ (record # NoRecord /\ BadExtension(record)) =>
         /\ ~Issued("upload")
         /\ steps.classify \in {"no", "false"}
         /\ steps.strip = "no"
         /\ steps.verify = "no"
         /\ (pc = "return" /\ calls # << >> /\ ~FailedDownload) => Issued("delete")
         /\ (pc = "return" /\ calls = << >>) => raised

\* real JPEG bytes under a .png key were downloaded, rejected and deleted
C23_Witness ==
    /\ pc = "return"
    /\ record.key.stem = "wrong_format"
    /\ steps.classify = "false"
    /\ Discarded

C23_WitnessNoExtension ==
    /\ pc = "return"
    /\ record.key.ext = ""
    /\ steps.classify = "false"

\* a blob-store call of the event raised
\* C24 (as stated): no blob-store operation is retried: each event causes
\* at most one download, one upload and one delete; a blob-store call that
\* raised is the last call of its event, and after a step that failed the
\* only call that follows is the single discard delete.
C24_Original ==
    /\ CountCalls("download") <= 1
    /\ CountCalls("upload") <= 1
    /\ CountCalls("delete") <= 1
    /\ \A i \in DOMAIN calls : ~calls[i].ok => i = Len(calls)
    /\ FailedStep =>
          (Len(calls) = 2 /\ calls[1].op = "download" /\ calls[2].op = "delete")

\* C25: every upload targets the configured destination location under
\* exactly the event's object key and carries the configured encryption key
\* reference; no upload is issued without encryption parameters, because no
\* available config lacks the key reference.
C25_UploadEncryptedToDestination ==
    /\ (get_config_count > 0 /\ ~config.none) => ~Falsy(config.processed_kms_key_arn)
    /\ \A i \in DOMAIN calls :
         calls[i].op = "upload" =>
           /\ ~config.none
           /\ calls[i].bucket = config.processed_bucket
           /\ calls[i].bucket = ProcessedBucket
           /\ calls[i].key = record.key
           /\ calls[i].kms = config.processed_kms_key_arn
           /\ calls[i].kms # NoneStr

\* an upload was issued for an event that names a bucket other than the
\* configured source
C25_Witness ==
    /\ Issued("upload")
    /\ record.bucket = OtherBucket
    /\ record.key.stem = "with_exif"

\* C26: with config available, processed_count + len(failed_records) equals
\* the number of records handled so far at every point of the loop, so the
\* result has processed + failed = total; a record that raised appends its
\* key at the end of failed_records and a record that did not leaves the
\* list alone, so the list holds the raised records' keys in event order.
C26_CountsAddUp ==
    /\ [](/\ processed_count + Len(failed_records) = idx
          /\ idx <= record_count
          /\ BatchDone =>
                /\ result.processed + result.failed = result.total
                /\ result.total = record_count
                /\ result.failed = Len(failed_records))
    /\ [][pc = "return" =>
            IF raised
            THEN /\ failed_records' = Append(failed_records, record.key)
                 /\ processed_count' = processed_count
            ELSE /\ failed_records' = failed_records
                 /\ processed_count' = processed_count + 1]_vars
    /\ [][pc # "return" =>
            (failed_records' = failed_records /\ processed_count' = processed_count)]_vars

\* a batch of two ended with one record counted and one failed
C26_Witness ==
    /\ BatchDone
    /\ result.processed = 1
    /\ result.failed = 1
    /\ result.total = 2

(***************************************************************************)
(* Concurrent callers of _get_config.                                      *)
(***************************************************************************)
\* the caller is between the cache miss or expiry and the end of its refresh
Refreshing(c) ==
    callers[c].pc \in {"clear", "clear_timestamp", "fetch", "head_ingest",
                       "head_processed", "fill_ingest_bucket",
                       "fill_processed_bucket", "fill_file_max_size",
                       "fill_processed_kms_key_arn", "stamp", "stamp_store"}

\* C27 (as stated): when several _get_config calls run concurrently, at most
\* one refresh is in progress at a time, and every call returns a complete
\* config or Unavailable: no call raises because another caller cleared the
\* cache or had filled it only in part.  (A call that raises the exception
\* of its own failed network call is not counted against this property.)
C27_Original ==
    /\ Cardinality({c \in Callers : Refreshing(c)}) <= 1
    /\ \A c \in Callers :
         /\ callers[c].ret \in {"none", "config", "Unavailable", "BotoCoreError"}
         /\ callers[c].ret = "config" => ~callers[c].value.none

(***************************************************************************)
(* Size 0, the cache between calls, and the bucket of the object calls.    *)
(***************************************************************************)

\* a record that declares size 0
ZeroSize(rec) == rec.has_size /\ rec.size = 0

\* C28 (as stated): a record that declares size 0 is never downloaded, and
\* when its handling ends the only call made is the delete of its source.
C28_Original ==
    ZeroSize(record) =>
        /\ ~Issued("download")
        /\ pc = "return" => (Len(calls) = 1 /\ calls[1].op = "delete")

\* the cache holds nothing and no timestamp
CacheEmpty == param_cache = EmptyCache /\ param_cache_timestamp = NoTimestamp

\* the cache holds the four values of the last successful fetch and the time
\* of that fetch
CacheComplete ==
    /\ param_cache.keys = CacheKeys
    /\ param_cache_timestamp.set
    /\ last_fetch.set
    /\ param_cache_timestamp.at = last_fetch.at
    /\ FromCache(param_cache) = last_fetch.config

\* C29: with a single caller, between _get_config calls the cache is either
\* empty with no timestamp, or holds all four values together with the
\* timestamp of the fetch that produced them; a call that did not produce a
\* config never leaves some of the values or a timestamp without values.
C29_CacheEmptyOrComplete ==
    /\ CacheEmpty \/ CacheComplete
    /\ ~(CacheEmpty /\ CacheComplete)

\* an earlier call filled the cache, and a later call found it expired and
\* failed to refresh it: the cache is empty again
C29_Witness ==
    /\ last_fetch.set
    /\ get_config_count >= 2
    /\ CacheEmpty

\* a later call refilled the cache after an expiry
C29_WitnessRefilled ==
    /\ CacheComplete
    /\ last_fetch.at > 0

\* C30: every download and every delete of a source object is issued for
\* the bucket and key named in the record being handled, whatever the
\* configured source bucket is.
C30_ObjectCallsUseEventBucket ==
    \A i \in DOMAIN calls :
        calls[i].op \in {"download", "delete"} =>
            /\ calls[i].bucket = record.bucket
            /\ calls[i].key = record.key

\* a record naming a bucket other than the configured source was downloaded
\* and its source deleted there
C30_Witness ==
    /\ record.bucket = OtherBucket
    /\ config.ingest_bucket # record.bucket
    /\ \E i, j \in DOMAIN calls :
          /\ calls[i].op = "download" /\ calls[i].ok
          /\ calls[j].op = "delete" /\ calls[j].ok
          /\ calls[i].bucket = OtherBucket /\ calls[j].bucket = OtherBucket
    /\ s3[<<OtherBucket, record.key>>] = Absent

====
